---- MODULE Spec2Model ----
(***************************************************************************)
(* Model of scripts/cov2ai.py: the LCOV parser (parse_lcov), the range     *)
(* merger (merge_ranges) and the payload builder (llm_payload_from_lcov).  *)
(*                                                                         *)
(* Text is modelled as sequences of one-character strings, so that         *)
(* startswith, strip, split and int are computed as Python computes them.  *)
(* A Python dict is a sequence of <<key, value>> pairs in insertion order. *)
(* None is the empty sequence <<>>, a present value v is <<v>>.            *)
(***************************************************************************)
EXTENDS Integers, Sequences, FiniteSets

\* ------------------------------------------------------------------ bounds

\* Most report lines read by one run.
MaxLines == 4

\* Most SF: lines among them.
MaxRecords == 2

\* The context window passed when the caller does not take the default.
SmallContext == 1

\* Default of the context_lines parameter.
DefaultContextLines == 40

\* Number of lines of the short and of the long source file a read can give.
ShortFile == 3

LongFile == 10

\* ------------------------------------------------------------- Python text

None == <<>>

Some(v) == <<v>>

Whitespace == {" ", "\n", "\t", "\r"}

Digits == <<"0", "1", "2", "3", "4", "5", "6", "7", "8", "9">>

IsDigit(c) == \E d \in 1..10 : Digits[d] = c

DigitVal(c) == (CHOOSE d \in 1..10 : Digits[d] = c) - 1

startswith(s, p) == Len(s) >= Len(p) /\ SubSeq(s, 1, Len(p)) = p

RECURSIVE lstrip(_)
lstrip(s) ==
    IF s # <<>> /\ Head(s) \in Whitespace THEN lstrip(Tail(s)) ELSE s

RECURSIVE rstrip(_)
rstrip(s) ==
    IF s # <<>> /\ s[Len(s)] \in Whitespace
    THEN rstrip(SubSeq(s, 1, Len(s) - 1))
    ELSE s

strip(s) == rstrip(lstrip(s))

\* s[n:] for n >= 0.
From(s, n) == SubSeq(s, n + 1, Len(s))

\* Index of the first sep in s, 0 when there is none.
Find(s, sep) ==
    IF \E i \in 1..Len(s) : s[i] = sep
    THEN CHOOSE i \in 1..Len(s) : s[i] = sep /\ \A j \in 1..(i - 1) : s[j] # sep
    ELSE 0

\* s.split(sep, maxsplit); maxsplit = -1 splits at every sep.
RECURSIVE split(_, _, _)
split(s, sep, maxsplit) ==
    LET i == Find(s, sep) IN
    IF maxsplit = 0 \/ i = 0
    THEN <<s>>
    ELSE <<SubSeq(s, 1, i - 1)>> \o
         split(From(s, i), sep, IF maxsplit < 0 THEN maxsplit ELSE maxsplit - 1)

RECURSIVE Decimal(_)
Decimal(ds) ==
    IF ds = <<>> THEN 0
    ELSE 10 * Decimal(SubSeq(ds, 1, Len(ds) - 1)) + DigitVal(ds[Len(ds)])

\* Faulty variant of int: text that is no number counts as 0.
int_or_zero(s) ==
    LET t == strip(s) IN
    IF t = <<>> \/ \E i \in 1..Len(t) : ~IsDigit(t[i]) THEN Some(0) ELSE Some(Decimal(t))

\* int(s): None stands for ValueError. Surrounding whitespace and one sign are
\* accepted, then at least one digit and nothing but digits (underscores
\* between digits, which int also accepts, do not occur in the inputs).
int(s) ==
    LET t    == strip(s)
        neg  == t # <<>> /\ Head(t) = "-"
        sgn  == t # <<>> /\ Head(t) \in {"-", "+"}
        body == IF sgn THEN Tail(t) ELSE t
    IN  IF body = <<>> \/ \E i \in 1..Len(body) : ~IsDigit(body[i])
        THEN None
        ELSE Some(IF neg THEN 0 - Decimal(body) ELSE Decimal(body))

\* ''.join(parts)
RECURSIVE join(_)
join(parts) == IF parts = <<>> THEN <<>> ELSE Head(parts) \o join(Tail(parts))

\* seq[lo:hi] with Python's treatment of negative and out-of-range indices.
PySlice(seq, lo, hi) ==
    LET n     == Len(seq)
        fix(k) == IF k < 0 THEN (IF k + n < 0 THEN 0 ELSE k + n)
                  ELSE (IF k > n THEN n ELSE k)
    IN  SubSeq(seq, fix(lo) + 1, fix(hi))

Max(a, b) == IF a >= b THEN a ELSE b

Min(a, b) == IF a <= b THEN a ELSE b

\* sorted(xs) for a list of integers.
RECURSIVE sorted(_)
sorted(xs) ==
    IF xs = <<>> THEN <<>>
    ELSE LET m == CHOOSE i \in 1..Len(xs) : \A j \in 1..Len(xs) : xs[i] <= xs[j]
         IN  <<xs[m]>> \o sorted(SubSeq(xs, 1, m - 1) \o SubSeq(xs, m + 1, Len(xs)))

\* ------------------------------------------------------------ Python dicts

DictHas(d, k) == \E i \in 1..Len(d) : d[i][1] = k

\* d.get(k): None when k is no key.
DictGet(d, k) ==
    IF DictHas(d, k)
    THEN Some(d[CHOOSE i \in 1..Len(d) : d[i][1] = k][2])
    ELSE None

\* d[k] = v: an existing key keeps its place, a new key goes last.
DictSet(d, k, v) ==
    IF DictHas(d, k)
    THEN [i \in 1..Len(d) |-> IF d[i][1] = k THEN <<k, v>> ELSE d[i]]
    ELSE Append(d, <<k, v>>)

\* ------------------------------------------------------------- parse_lcov

P_TN   == <<"T", "N", ":">>
P_SF   == <<"S", "F", ":">>
P_DA   == <<"D", "A", ":">>
P_FN   == <<"F", "N", ":">>
P_FNDA == <<"F", "N", "D", "A", ":">>
P_BRDA == <<"B", "R", "D", "A", ":">>
END_OF_RECORD == <<"e", "n", "d", "_", "o", "f", "_", "r", "e", "c", "o", "r", "d">>

\* The dict a SF: line opens; fn_defs is a key only once setdefault has added it.
NewRecord(path) ==
    [file |-> path, lines |-> <<>>, functions |-> <<>>, branches |-> <<>>,
     fn_defs |-> None]

\* `if cur:` is false for None and true for a record, which always has keys.
Truthy(cur) == cur # None

\* The outcome of one loop iteration: the exception raised ("" for none) and
\* the values of cur and files after it.
Ok(c, fs) == [exc |-> "", cur |-> c, files |-> fs]

Raise(e, c, fs) == [exc |-> e, cur |-> c, files |-> fs]

\* `if cur: files.append(cur)`
FlushOpen(cur, files) == IF Truthy(cur) THEN Append(files, cur[1]) ELSE files

\* Faulty variant of on_SF: the open record is dropped, not flushed.
on_SF_no_flush(cur, files, line) == Ok(Some(NewRecord(From(line, 3))), files)

on_SF(cur, files, line) ==
    Ok(Some(NewRecord(From(line, 3))), FlushOpen(cur, files))

\* cur['lines'][int(ln)] = int(hits): the right-hand side is evaluated first,
\* then cur['lines'], then the subscript.
on_DA(cur, files, line) ==
    LET parts == split(From(line, 3), ",", 2) IN
    IF Len(parts) < 2 THEN Raise("IndexError", cur, files)
    ELSE LET ln == int(parts[1])
             hits == int(parts[2])
         IN  IF hits = None THEN Raise("ValueError", cur, files)
             ELSE IF cur = None THEN Raise("TypeError", cur, files)
             ELSE IF ln = None THEN Raise("ValueError", cur, files)
             ELSE Ok(Some([cur[1] EXCEPT !.lines = DictSet(@, ln[1], hits[1])]), files)

on_FN(cur, files, line) ==
    LET parts == split(From(line, 3), ",", 1) IN
    IF Len(parts) # 2 THEN Raise("ValueError", cur, files)
    ELSE LET fn_line == int(parts[1])
             fn_name == parts[2]
         IN  IF fn_line = None THEN Raise("ValueError", cur, files)
             ELSE IF cur = None THEN Raise("AttributeError", cur, files)
             ELSE LET defs == IF cur[1].fn_defs = None THEN <<>> ELSE cur[1].fn_defs[1]
                  IN  Ok(Some([cur[1] EXCEPT
                                 !.fn_defs = Some(DictSet(defs, fn_name, fn_line[1]))]),
                         files)

on_FNDA(cur, files, line) ==
    LET parts == split(From(line, 5), ",", 1) IN
    IF Len(parts) # 2 THEN Raise("ValueError", cur, files)
    ELSE LET hits == int(parts[1])
             fn_name == parts[2]
         IN  IF hits = None THEN Raise("ValueError", cur, files)
             ELSE IF cur = None THEN Raise("TypeError", cur, files)
             ELSE Ok(Some([cur[1] EXCEPT !.functions = DictSet(@, fn_name, hits[1])]),
                     files)

\* Faulty variant of BranchHits: '-' is not normalized.
BranchHits_zero_only(hits) == IF hits = <<"0">> THEN Some(0) ELSE int(hits)

\* 0 if hits in ('0', '-') else int(hits)
BranchHits(hits) == IF hits \in {<<"0">>, <<"-">>} THEN Some(0) ELSE int(hits)

\* cur['branches'] is evaluated before the dict of the new observation.
on_BRDA(cur, files, line) ==
    LET parts == split(From(line, 5), ",", -1) IN
    IF Len(parts) # 4 THEN Raise("ValueError", cur, files)
    ELSE IF cur = None THEN Raise("TypeError", cur, files)
    ELSE LET l == int(parts[1])
             b == int(parts[2])
             br == int(parts[3])
             hits == BranchHits(parts[4])
         IN  IF l = None \/ b = None \/ br = None \/ hits = None
             THEN Raise("ValueError", cur, files)
             ELSE Ok(Some([cur[1] EXCEPT !.branches =
                             Append(@, [line |-> l[1], block |-> b[1],
                                        branch |-> br[1], hits |-> hits[1]])]),
                     files)

\* `if cur: files.append(cur); cur = None`
on_end_of_record(cur, files, line) ==
    IF Truthy(cur) THEN Ok(None, Append(files, cur[1])) ELSE Ok(cur, files)

\* The body of `for line in f`.
parse_line(cur, files, raw) ==
    LET line == strip(raw) IN
    IF startswith(line, P_TN) THEN Ok(cur, files)
    ELSE IF startswith(line, P_SF) THEN on_SF(cur, files, line)
    ELSE IF startswith(line, P_DA) THEN on_DA(cur, files, line)
    ELSE IF startswith(line, P_FN) THEN on_FN(cur, files, line)
    ELSE IF startswith(line, P_FNDA) THEN on_FNDA(cur, files, line)
    ELSE IF startswith(line, P_BRDA) THEN on_BRDA(cur, files, line)
    ELSE IF line = END_OF_RECORD THEN on_end_of_record(cur, files, line)
    ELSE Ok(cur, files)

\* ----------------------------------------------------------- merge_ranges

\* Faulty variant of MergeLoop: a line next to the last range opens a new one.
RECURSIVE MergeLoop_no_adjacent(_, _)
MergeLoop_no_adjacent(ranges, xs) ==
    IF xs = <<>> THEN ranges
    ELSE LET ln == Head(xs)
             n  == Len(ranges)
         IN  IF n = 0 \/ ln > ranges[n][2]
             THEN MergeLoop_no_adjacent(Append(ranges, <<ln, ln>>), Tail(xs))
             ELSE MergeLoop_no_adjacent([ranges EXCEPT ![n] = <<ranges[n][1], ln>>],
                                        Tail(xs))

\* The loop of merge_ranges over an already ordered list.
RECURSIVE MergeLoop(_, _)
MergeLoop(ranges, xs) ==
    IF xs = <<>> THEN ranges
    ELSE LET ln == Head(xs)
             n  == Len(ranges)
         IN  IF n = 0 \/ ln > ranges[n][2] + 1
             THEN MergeLoop(Append(ranges, <<ln, ln>>), Tail(xs))
             ELSE MergeLoop([ranges EXCEPT ![n] = <<ranges[n][1], ln>>], Tail(xs))

\* Faulty variant of merge_ranges: the lines are taken in dict order.
merge_ranges_unsorted(lines) == MergeLoop(<<>>, lines)

merge_ranges(lines) == MergeLoop(<<>>, sorted(lines))

\* ------------------------------------------------- llm_payload_from_lcov

\* [ln for ln, hits in f['lines'].items() if hits == 0]
RECURSIVE ZeroKeys(_)
ZeroKeys(d) ==
    IF d = <<>> THEN <<>>
    ELSE (IF Head(d)[2] = 0 THEN <<Head(d)[1]>> ELSE <<>>) \o ZeroKeys(Tail(d))

uncovered_lines(f) == ZeroKeys(f.lines)

\* f.get('fn_defs', {}).get(name)
FnDefLine(f, name) ==
    IF f.fn_defs = None THEN None ELSE DictGet(f.fn_defs[1], name)

RECURSIVE UnexecLoop(_, _)
UnexecLoop(f, items) ==
    IF items = <<>> THEN <<>>
    ELSE (IF Head(items)[2] = 0
          THEN <<[name |-> Head(items)[1], line |-> FnDefLine(f, Head(items)[1])]>>
          ELSE <<>>) \o UnexecLoop(f, Tail(items))

\* Faulty variant of unexec_funcs: a function with no FN: line is left out.
unexec_funcs_defined_only(f) ==
    SelectSeq(UnexecLoop(f, f.functions), LAMBDA uf : uf.line # None)

unexec_funcs(f) == UnexecLoop(f, f.functions)

RECURSIVE BranchLoop(_)
BranchLoop(brs) ==
    IF brs = <<>> THEN <<>>
    ELSE (IF Head(brs).hits = 0
          THEN <<[line |-> Head(brs).line, branch |-> Head(brs).branch]>>
          ELSE <<>>) \o BranchLoop(Tail(brs))

uncovered_branches(f) == BranchLoop(f.branches)

\* What open(src_path) and readlines() give: a failure, or the lines of the file.
Unreadable == [ok |-> FALSE, lines |-> <<>>]

Readable(ls) == [ok |-> TRUE, lines |-> ls]

\* code = '' unless the read succeeds.
SourceCode(rd) == IF rd.ok THEN rd.lines ELSE <<>>

\* Faulty variant of slice_around: the window starts one line late.
slice_around_late(code, context_lines, start, end) ==
    IF code = <<>> THEN <<>>
    ELSE LET lo == Max(0, start - context_lines)
             hi == Min(Len(code), end + context_lines)
         IN  join(PySlice(code, lo, hi))

slice_around(code, context_lines, start, end) ==
    IF code = <<>> THEN <<>>
    ELSE LET lo == Max(0, start - 1 - context_lines)
             hi == Min(Len(code), end + context_lines)
         IN  join(PySlice(code, lo, hi))

RECURSIVE LineSnippets(_, _, _)
LineSnippets(code, context_lines, ranges) ==
    IF ranges = <<>> THEN <<>>
    ELSE LET r == Head(ranges) IN
         <<[type |-> "lines", range |-> Some(r), name |-> None, line |-> None,
            code |-> slice_around(code, context_lines, r[1], r[2])]>>
         \o LineSnippets(code, context_lines, Tail(ranges))

\* `if uf['line']:` is false for None and for 0.
HasLine(uf) == uf.line # None /\ uf.line[1] # 0

RECURSIVE FunctionSnippets(_, _, _)
FunctionSnippets(code, context_lines, ufs) ==
    IF ufs = <<>> THEN <<>>
    ELSE LET uf == Head(ufs) IN
         (IF HasLine(uf)
          THEN <<[type |-> "function", range |-> None, name |-> Some(uf.name),
                  line |-> uf.line,
                  code |-> slice_around(code, context_lines, uf.line[1], uf.line[1] + 1)]>>
          ELSE <<>>)
         \o FunctionSnippets(code, context_lines, Tail(ufs))

\* Faulty variant of Snippets: no snippet at all without source text.
Snippets_need_source(code, context_lines, ranges, ufs) ==
    IF code = <<>> THEN <<>>
    ELSE LineSnippets(code, context_lines, ranges)
         \o FunctionSnippets(code, context_lines, ufs)

Snippets(code, context_lines, ranges, ufs) ==
    LineSnippets(code, context_lines, ranges)
    \o FunctionSnippets(code, context_lines, ufs)

\* One iteration of `for f in files`: the dict appended to out.
Payload(f, rd, context_lines) ==
    LET ranges == merge_ranges(uncovered_lines(f))
        ufs    == unexec_funcs(f)
    IN  [file |-> f.file,
         uncovered_ranges |-> ranges,
         uncovered_branches |-> uncovered_branches(f),
         unexecuted_functions |-> ufs,
         snippets |-> Snippets(SourceCode(rd), context_lines, ranges, ufs)]

\* ------------------------------------------------------------ the inputs

\* A line as iteration over the report file yields it.
Ln(s) == s \o <<"\n">>

SFa  == Ln(<<"S", "F", ":", "a">>)
SFb  == Ln(<<"S", "F", ":", "b">>)
EOR   == Ln(END_OF_RECORD)
TN_t  == Ln(<<"T", "N", ":", "t">>)
VER   == Ln(<<"V", "E", "R", ":", "1">>)
DA_1_0 == Ln(<<"D", "A", ":", "1", ",", "0">>)
DA_2_0 == Ln(<<"D", "A", ":", "2", ",", "0">>)
DA_2_1 == Ln(<<"D", "A", ":", "2", ",", "1">>)
DA_3_0 == Ln(<<"D", "A", ":", "3", ",", "0", ",", "k">>)
DA_5_0 == Ln(<<" ", "D", "A", ":", "5", ",", "0">>)
DA_s2_p1 == Ln(<<"D", "A", ":", " ", "2", ",", "+", "1">>)
DA_4_x == Ln(<<"D", "A", ":", "4", ",", "x">>)
FN_2_f == Ln(<<"F", "N", ":", "2", ",", "f">>)
FN_0_g == Ln(<<"F", "N", ":", "0", ",", "g">>)
FNDA_0_f == Ln(<<"F", "N", "D", "A", ":", "0", ",", "f">>)
FNDA_1_f == Ln(<<"F", "N", "D", "A", ":", "1", ",", "f">>)
FNDA_0_g == Ln(<<"F", "N", "D", "A", ":", "0", ",", "g">>)
FNDA_x_f == Ln(<<"F", "N", "D", "A", ":", "x", ",", "f">>)
BRDA_1_0_0_dash == Ln(<<"B", "R", "D", "A", ":", "1", ",", "0", ",", "0", ",", "-">>)
BRDA_1_0_1_3 == Ln(<<"B", "R", "D", "A", ":", "1", ",", "0", ",", "1", ",", "3">>)
BRDA_2_1_0_0 == Ln(<<"B", "R", "D", "A", ":", "2", ",", "1", ",", "0", ",", "0">>)
BRDA_2_0_x_0 == Ln(<<"B", "R", "D", "A", ":", "2", ",", "0", ",", "x", ",", "0">>)

FN_x_f == Ln(<<"F", "N", ":", "x", ",", "f">>)

\* The families of lines a report is written in.

\* Record boundaries.
BoundaryLines == {SFa, SFb, EOR, TN_t, VER, DA_1_0}

\* Line coverage.
CoverageLines == {SFa, EOR, DA_1_0, DA_2_0, DA_2_1, DA_3_0, DA_5_0}

\* Function coverage, with one line for the range snippets.
FunctionLines == {SFa, DA_5_0, FN_2_f, FN_0_g, FNDA_0_f, FNDA_1_f, FNDA_0_g}

\* Branch coverage.
BranchLines == {SFa, SFb, EOR, BRDA_1_0_0_dash, BRDA_1_0_1_3, BRDA_2_1_0_0}

\* Corrupt numbers in every recognized tag.
CorruptLines ==
    {SFa, EOR, DA_1_0, DA_s2_p1, DA_4_x, FN_x_f, FNDA_x_f, BRDA_2_0_x_0, BRDA_1_0_0_dash}

Vocabularies == {BoundaryLines, CoverageLines, FunctionLines, BranchLines, CorruptLines}

ContextChoices == {SmallContext, DefaultContextLines}

SrcLine(i) == <<"x", Digits[(i % 10) + 1], "\n">>

Src(n) == [i \in 1..n |-> SrcLine(i)]

ReadOutcomes == {Unreadable, Readable(Src(0)), Readable(Src(ShortFile)), Readable(Src(LongFile))}

\* ---------------------------------------------------------------- the run

VARIABLES
    vocab,          \* the family of lines the report is written in
    context_lines,  \* the context_lines argument
    report,         \* the lines of the report read so far
    cur,            \* parse_lcov: the open record, or None
    files,          \* parse_lcov: the records flushed; then the list returned
    pc,             \* "parse", "build", "done" or "raised"
    exc,            \* the exception that ended the run, "" for none
    reads,          \* what reading the source file gave, per payload built
    out,            \* llm_payload_from_lcov: the payloads built
    result          \* the list returned to the caller, None before

vars == <<vocab, context_lines, report, cur, files, pc, exc, reads, out, result>>

InitOn(lines) ==
    /\ vocab = lines
    /\ context_lines \in ContextChoices
    /\ report = <<>>
    /\ cur = None
    /\ files = <<>>
    /\ pc = "parse"
    /\ exc = ""
    /\ reads = <<>>
    /\ out = <<>>
    /\ result = None

\* One iteration of `for line in f`; an exception leaves the function, and
\* llm_payload_from_lcov with it. The report holds at most MaxLines lines, at
\* most MaxRecords of them SF: lines.
ReadLine ==
    /\ pc = "parse"
    /\ Len(report) < MaxLines
    /\ \E raw \in vocab :
         LET r == parse_line(cur, files, raw) IN
         /\ startswith(strip(raw), P_SF) => Len(files) + Len(cur) < MaxRecords
         /\ report' = Append(report, raw)
         /\ IF r.exc = ""
            THEN /\ cur' = r.cur
                 /\ files' = r.files
                 /\ UNCHANGED <<pc, exc>>
            ELSE /\ pc' = "raised"
                 /\ exc' = r.exc
                 /\ UNCHANGED <<cur, files>>
    /\ UNCHANGED <<vocab, context_lines, reads, out, result>>

\* The end of the file: the open record is flushed and files is returned.
EndOfInput ==
    /\ pc = "parse"
    /\ files' = FlushOpen(cur, files)
    /\ pc' = "build"
    /\ UNCHANGED <<vocab, context_lines, report, cur, exc, reads, out, result>>

\* One iteration of `for f in files`.
BuildPayload ==
    /\ pc = "build"
    /\ Len(out) < Len(files)
    /\ \E rd \in ReadOutcomes :
         /\ reads' = Append(reads, rd)
         /\ out' = Append(out, Payload(files[Len(out) + 1], rd, context_lines))
    /\ UNCHANGED <<vocab, context_lines, report, cur, files, pc, exc, result>>

\* `return out`
Return ==
    /\ pc = "build"
    /\ Len(out) = Len(files)
    /\ result' = Some(out)
    /\ pc' = "done"
    /\ UNCHANGED <<vocab, context_lines, report, cur, files, exc, reads, out>>

Next == ReadLine \/ EndOfInput \/ BuildPayload \/ Return

InitBoundary == InitOn(BoundaryLines)

InitCoverage == InitOn(CoverageLines)

InitFunctions == InitOn(FunctionLines)

InitBranches == InitOn(BranchLines)

InitCorrupt == InitOn(CorruptLines)

Init == \E lines \in Vocabularies : InitOn(lines)

Spec == Init /\ [][Next]_vars

SpecBoundary == InitBoundary /\ [][Next]_vars

SpecCoverage == InitCoverage /\ [][Next]_vars

SpecFunctions == InitFunctions /\ [][Next]_vars

SpecBranches == InitBranches /\ [][Next]_vars

SpecCorrupt == InitCorrupt /\ [][Next]_vars

\* ------------------------------------------------------------- properties

Last(s) == s[Len(s)]

Tag(raw, prefix) == startswith(strip(raw), prefix)

\* The text after the tag of a line.
Rest(raw, prefix) == From(strip(raw), Len(prefix))

\* The text of an integer: digits, after an optional sign, within optional
\* whitespace.
IsIntegerText(s) ==
    LET t == strip(s)
        d == IF t # <<>> /\ Head(t) \in {"+", "-"} THEN Tail(t) ELSE t
    IN  d # <<>> /\ \A i \in 1..Len(d) : IsDigit(d[i])

\* The sections of a report, as lists of lines: a SF: line opens one, the
\* next SF: line or end_of_record closes it, the end of the report closes the
\* last; a line outside any section belongs to none.
RECURSIVE Sections(_, _, _)
Sections(rep, closed, open) ==
    IF rep = <<>> THEN closed \o open
    ELSE IF Tag(Head(rep), P_SF)
         THEN Sections(Tail(rep), closed \o open, <<<<Head(rep)>>>>)
    ELSE IF strip(Head(rep)) = END_OF_RECORD
         THEN Sections(Tail(rep), closed \o open, <<>>)
    ELSE IF open = <<>> THEN Sections(Tail(rep), closed, open)
    ELSE Sections(Tail(rep), closed, <<Append(open[1], Head(rep))>>)

SectionsOf(rep) == Sections(rep, <<>>, <<>>)

RECURSIVE SFPaths(_)
SFPaths(rep) ==
    IF rep = <<>> THEN <<>>
    ELSE (IF Tag(Head(rep), P_SF) THEN <<Rest(Head(rep), P_SF)>> ELSE <<>>)
         \o SFPaths(Tail(rep))

RecordFiles(fs) == [i \in 1..Len(fs) |-> fs[i].file]

Parsed == pc \in {"build", "done"}

\* C1: parse_lcov returns exactly one record per SF: line, in the order of
\* the SF: lines, wherever the end_of_record markers stand. While the report
\* is being read, the records flushed so far followed by the open one are the
\* SF: lines read so far, so each record is flushed exactly once and an
\* end_of_record with no open record adds nothing.
C1_OneRecordPerSF ==
    /\ pc = "parse" =>
         RecordFiles(files) \o (IF cur = None THEN <<>> ELSE <<cur[1].file>>)
           = SFPaths(report)
    /\ Parsed => RecordFiles(files) = SFPaths(report)

\* Two SF: sections and no end_of_record at all: two records.
C1_TwoSectionsNoMarker ==
    /\ pc = "done"
    /\ report = <<SFa, DA_1_0, SFb>>
    /\ RecordFiles(files) = <<<<"a">>, <<"b">>>>
    /\ files[1].lines = <<<<1, 0>>>> /\ files[2].lines = <<>>

IsFieldLine(raw) ==
    Tag(raw, P_DA) \/ Tag(raw, P_FN) \/ Tag(raw, P_FNDA) \/ Tag(raw, P_BRDA)

\* The line is one that an open record takes.
WellFormed(raw) == parse_line(Some(NewRecord(<<>>)), <<>>, raw).exc = ""

\* C2: a DA:, FN:, FNDA: or BRDA: line read while no record is open changes
\* nothing and the parse goes on: no run is ended by such a line.
C2_FieldLineIgnoredWhenClosed ==
    ~(/\ pc = "raised"
      /\ cur = None
      /\ IsFieldLine(Last(report))
      /\ WellFormed(Last(report)))

Covers(r) == r[1]..r[2]

ZeroLines(f) == {f.lines[j][1] : j \in {k \in 1..Len(f.lines) : f.lines[k][2] = 0}}

\* C3: the uncovered ranges of every payload are sorted by start, pairwise
\* disjoint, and hold exactly the lines of the record whose hit count is 0;
\* no zero-hit line gives no range.
C3_RangesPartitionZeroLines ==
    \A i \in 1..Len(out) :
      LET rs == out[i].uncovered_ranges
          Z  == ZeroLines(files[i])
      IN  /\ \A a, b \in 1..Len(rs) : a < b => rs[a][1] < rs[b][1]
          /\ \A a, b \in 1..Len(rs) : a # b => Covers(rs[a]) \cap Covers(rs[b]) = {}
          /\ UNION {Covers(rs[a]) : a \in 1..Len(rs)} = Z
          /\ Z = {} => rs = <<>>

\* Zero-hit lines reported out of order, giving two ranges.
C3_UnsortedInput ==
    \E i \in 1..Len(out) :
      /\ uncovered_lines(files[i]) = <<5, 2, 1>>
      /\ out[i].uncovered_ranges = <<<<1, 2>>, <<5, 5>>>>

\* C4: every range has start <= end, and the start of each range is more
\* than one past the end of the range before it.
C4_RangesMaximal ==
    \A i \in 1..Len(out) :
      LET rs == out[i].uncovered_ranges IN
      /\ \A a \in 1..Len(rs) : rs[a][1] <= rs[a][2]
      /\ \A a \in 1..(Len(rs) - 1) : rs[a + 1][1] > rs[a][2] + 1

\* Three adjacent zero-hit lines, reported out of order, merged into one range.
C4_AdjacentMerged ==
    \E i \in 1..Len(out) :
      /\ uncovered_lines(files[i]) = <<2, 1, 3>>
      /\ out[i].uncovered_ranges = <<<<1, 3>>>>

\* A recognized tag with a numeric field that is not the text of an integer.
MalformedNumeric(raw) ==
    \/ /\ Tag(raw, P_DA)
       /\ LET parts == split(Rest(raw, P_DA), ",", 2) IN
          Len(parts) >= 2 /\ (~IsIntegerText(parts[1]) \/ ~IsIntegerText(parts[2]))
    \/ /\ Tag(raw, P_FN)
       /\ LET parts == split(Rest(raw, P_FN), ",", 1) IN
          Len(parts) = 2 /\ ~IsIntegerText(parts[1])
    \/ /\ Tag(raw, P_FNDA)
       /\ LET parts == split(Rest(raw, P_FNDA), ",", 1) IN
          Len(parts) = 2 /\ ~IsIntegerText(parts[1])
    \/ /\ Tag(raw, P_BRDA)
       /\ LET parts == split(Rest(raw, P_BRDA), ",", -1) IN
          /\ Len(parts) = 4
          /\ \/ \E k \in 1..3 : ~IsIntegerText(parts[k])
             \/ parts[4] # <<"-">> /\ ~IsIntegerText(parts[4])

\* C5: once a line with a malformed numeric field has been read the run is
\* over with an exception: nothing is returned and no payload exists, also for
\* the records completed before that line.
C5_MalformedNumberAborts ==
    /\ (\E i \in 1..Len(report) : MalformedNumeric(report[i])) =>
         pc = "raised" /\ exc # "" /\ MalformedNumeric(Last(report))
    /\ pc = "raised" => result = None /\ out = <<>>

\* A malformed line after a completed record.
C5_AbortAfterCompleteRecord ==
    /\ pc = "raised"
    /\ exc = "ValueError"
    /\ Len(files) >= 1
    /\ cur # None
    /\ MalformedNumeric(Last(report))

\* The lines a snippet is about: its range, or the function's line and the next.
Span(sn) ==
    IF sn.type = "lines" THEN sn.range[1] ELSE <<sn.line[1], sn.line[1] + 1>>

\* C6: over a readable source file of lastLine lines, the code of a snippet
\* with a 1-based span [start, end] is the concatenation of the lines
\* max(1, start - C) .. min(lastLine, end + C).
C6_SnippetWindowClipped ==
    \A i \in 1..Len(out) :
      reads[i].ok =>
        LET code == reads[i].lines IN
        \A k \in 1..Len(out[i].snippets) :
          LET sn == out[i].snippets[k]
              sp == Span(sn)
          IN  sp[1] >= 1 =>
                sn.code = join(SubSeq(code, Max(1, sp[1] - context_lines),
                                      Min(Len(code), sp[2] + context_lines)))

\* The default window around [5, 5] in the long file is the whole file.
C6_ClippedAtBothEnds ==
    /\ context_lines = DefaultContextLines
    /\ \E i \in 1..Len(out) :
         /\ reads[i] = Readable(Src(LongFile))
         /\ \E k \in 1..Len(out[i].snippets) :
              /\ out[i].snippets[k].range = Some(<<5, 5>>)
              /\ out[i].snippets[k].code = join(Src(LongFile))

ZeroFuncs(f) ==
    {f.functions[j][1] : j \in {k \in 1..Len(f.functions) : f.functions[k][2] = 0}}

\* C7: unexecuted_functions lists exactly the functions of the record with
\* hit count 0, each once, with the line of its FN: definition or None when
\* the record has none; a function listed with None has no function snippet.
C7_UnexecutedFunctions ==
    \A i \in 1..Len(out) :
      LET f   == files[i]
          ufs == out[i].unexecuted_functions
      IN  /\ {ufs[k].name : k \in 1..Len(ufs)} = ZeroFuncs(f)
          /\ Len(ufs) = Cardinality(ZeroFuncs(f))
          /\ \A k \in 1..Len(ufs) :
               /\ ufs[k].line =
                    (IF f.fn_defs # None /\ DictHas(f.fn_defs[1], ufs[k].name)
                     THEN DictGet(f.fn_defs[1], ufs[k].name)
                     ELSE None)
               /\ ufs[k].line = None =>
                    \A n \in 1..Len(out[i].snippets) :
                      ~(/\ out[i].snippets[n].type = "function"
                        /\ out[i].snippets[n].name = Some(ufs[k].name))

\* A zero-hit function with a definition line and one without.
C7_FunctionWithoutDefinition ==
    \E i \in 1..Len(out) :
      /\ out[i].unexecuted_functions =
           <<[name |-> <<"f">>, line |-> Some(2)], [name |-> <<"g">>, line |-> None]>>
      /\ Len(out[i].snippets) = 1
      /\ out[i].snippets[1].name = Some(<<"f">>)

Blank(sns) == [k \in 1..Len(sns) |-> [sns[k] EXCEPT !.code = <<>>]]

\* C8: an unreadable source file does not end the run; the payload of its
\* record has the empty string as the code of every snippet and is otherwise
\* the payload a readable source gives; every record gets its payload.
C8_UnreadableSourceTolerated ==
    /\ pc = "raised" => reads = <<>>
    /\ pc = "done" => Len(out) = Len(files) /\ result = Some(out)
    /\ Len(reads) = Len(out)
    /\ \A i \in 1..Len(out) :
         ~reads[i].ok =>
           /\ \A k \in 1..Len(out[i].snippets) : out[i].snippets[k].code = <<>>
           /\ \A rd \in ReadOutcomes :
                rd.ok =>
                  LET p == Payload(files[i], rd, context_lines) IN
                  /\ out[i].file = p.file
                  /\ out[i].uncovered_ranges = p.uncovered_ranges
                  /\ out[i].uncovered_branches = p.uncovered_branches
                  /\ out[i].unexecuted_functions = p.unexecuted_functions
                  /\ out[i].snippets = Blank(p.snippets)

\* Two records, the source of the first unreadable, of the second readable.
C8_OneSourceMissing ==
    /\ pc = "done"
    /\ Len(out) = 2
    /\ ~reads[1].ok /\ reads[2].ok
    /\ out[1].snippets # <<>>
    /\ out[2].snippets # <<>> /\ out[2].snippets[1].code # <<>>

\* The zero-hit branches a section's BRDA: lines describe, in report order.
RECURSIVE ZeroBranches(_)
ZeroBranches(sec) ==
    IF sec = <<>> THEN <<>>
    ELSE LET parts == split(Rest(Head(sec), P_BRDA), ",", -1) IN
         (IF /\ Tag(Head(sec), P_BRDA)
             /\ (parts[4] \in {<<"0">>, <<"-">>} \/ int(parts[4]) = Some(0))
          THEN <<[line |-> int(parts[1])[1], branch |-> int(parts[3])[1]]>>
          ELSE <<>>) \o ZeroBranches(Tail(sec))

\* The hit counts a section's BRDA: lines are stored with.
RECURSIVE StoredHits(_)
StoredHits(sec) ==
    IF sec = <<>> THEN <<>>
    ELSE LET parts == split(Rest(Head(sec), P_BRDA), ",", -1) IN
         (IF Tag(Head(sec), P_BRDA)
          THEN <<IF parts[4] \in {<<"0">>, <<"-">>} THEN 0 ELSE int(parts[4])[1]>>
          ELSE <<>>) \o StoredHits(Tail(sec))

\* C9: a BRDA: line with hits '0' or '-' is taken (it does not end the run),
\* is stored with hit count 0 and is listed in uncovered_branches as its line
\* and branch; a BRDA: line with other hits is not listed; the list is in
\* report order.
C9_UncoveredBranches ==
    /\ Parsed =>
         LET secs == SectionsOf(report) IN
         /\ \A i \in 1..Len(files) :
              [k \in 1..Len(files[i].branches) |-> files[i].branches[k].hits]
                = StoredHits(secs[i])
         /\ \A i \in 1..Len(out) :
              out[i].uncovered_branches = ZeroBranches(secs[i])
    /\ ~(/\ pc = "raised"
         /\ cur # None
         /\ Tag(Last(report), P_BRDA)
         /\ ~MalformedNumeric(Last(report)))

\* '-' and '0' listed, 3 not.
C9_DashAndZeroListed ==
    \E i \in 1..Len(out) :
      /\ SectionsOf(report)[i] = <<SFa, BRDA_1_0_0_dash, BRDA_1_0_1_3, BRDA_2_1_0_0>>
      /\ out[i].uncovered_branches =
           <<[line |-> 1, branch |-> 0], [line |-> 2, branch |-> 0]>>

RECURSIVE KnownLineSnippets(_, _)
KnownLineSnippets(code, ufs) ==
    IF ufs = <<>> THEN <<>>
    ELSE (IF Head(ufs).line # None
          THEN <<[type |-> "function", range |-> None, name |-> Some(Head(ufs).name),
                  line |-> Head(ufs).line,
                  code |-> slice_around(code, context_lines, Head(ufs).line[1],
                                        Head(ufs).line[1] + 1)]>>
          ELSE <<>>) \o KnownLineSnippets(code, Tail(ufs))

\* C10: the snippets of a payload are one 'lines' snippet per uncovered range,
\* in order, then one 'function' snippet per unexecuted function with a known
\* definition line, whatever that line, in order, over the span [line, line+1].
C10_SnippetsPerRangeThenFunction ==
    \A i \in 1..Len(out) :
      LET code == SourceCode(reads[i])
          rs   == out[i].uncovered_ranges
      IN  out[i].snippets =
            [k \in 1..Len(rs) |->
               [type |-> "lines", range |-> Some(rs[k]), name |-> None, line |-> None,
                code |-> slice_around(code, context_lines, rs[k][1], rs[k][2])]]
            \o KnownLineSnippets(code, out[i].unexecuted_functions)

====
